---------------------------- MODULE Spec2Model ----------------------------
(***************************************************************************)
(* Model of scripts/connect_ai_client.py: the Connect AI REST client.      *)
(*                                                                         *)
(* Text is modelled as a sequence of one-character strings, so that        *)
(* lengths, padding, joining and line splitting are computed.  A Python    *)
(* value that may be None, or a JSON member that may be missing, is a      *)
(* record with a tag field, so that values of different kinds compare.     *)
(*                                                                         *)
(* Two specifications share the module:                                    *)
(*   FormatSpec  the pure result formatter, applied to every QueryResult   *)
(*               of a bounded family;                                      *)
(*   Spec        the API gateway: calls of the public network operations   *)
(*               interleaved with changes of the environment.              *)
(***************************************************************************)
EXTENDS Integers, Sequences, FiniteSets, TLC

VARIABLES
    result,     \* FormatSpec: the QueryResult held by the caller
    out,        \* FormatSpec: what the last formatter call returned
    environ,    \* Spec: os.environ, the two credential variables
    wire,       \* Spec: the HTTP requests sent by the most recent call
    reply,      \* Spec: what the transport answered to the most recent call
    ret         \* Spec: the most recent call, its arguments and its outcome

fmtVars == <<result, out>>
gwVars == <<environ, wire, reply, ret>>
vars == <<result, out, environ, wire, reply, ret>>

\* Bounds of the QueryResult family.
MaxCols == 2
MaxRows == 2

-----------------------------------------------------------------------------
(* Generic helpers.                                                        *)

SeqUpTo(S, n) == UNION {[1..k -> S] : k \in 0..n}

Min(a, b) == IF a <= b THEN a ELSE b

\* Python's builtin max(a, b).
Max2(a, b) == IF a >= b THEN a ELSE b

RECURSIVE MaxOfFrom(_, _)
MaxOfFrom(s, i) ==
    IF i = Len(s) THEN s[i] ELSE Max2(s[i], MaxOfFrom(s, i + 1))

\* Python's builtin max(iterable) over a non-empty sequence of integers.
MaxOf(s) == MaxOfFrom(s, 1)

\* ' ' * n, '-' * n
Repeat(c, n) == [i \in 1..n |-> c]

\* str.ljust(width): pads on the right, never truncates.
Ljust(s, width) == IF Len(s) >= width THEN s ELSE s \o Repeat(" ", width - Len(s))

RECURSIVE JoinFrom(_, _, _)
JoinFrom(sep, items, i) ==
    IF i > Len(items) THEN <<>>
    ELSE IF i = Len(items) THEN items[i]
    ELSE items[i] \o sep \o JoinFrom(sep, items, i + 1)

\* sep.join(items)
Join(sep, items) == JoinFrom(sep, items, 1)

-----------------------------------------------------------------------------
(* Values of a row, and str().                                             *)

StrV(s) == [k |-> "str", s |-> s, n |-> 0]
IntV(n) == [k |-> "int", s |-> <<>>, n |-> n]
NoneV == [k |-> "none", s |-> <<>>, n |-> 0]

Digit(d) == <<"0", "1", "2", "3", "4", "5", "6", "7", "8", "9">>[d + 1]

RECURSIVE NatToStr(_)
NatToStr(n) == IF n < 10 THEN <<Digit(n)>> ELSE NatToStr(n \div 10) \o <<Digit(n % 10)>>

\* str(value): a string is itself, an integer its decimal digits, None is 'None'.
Str(v) ==
    CASE v.k = "str" -> v.s
      [] v.k = "int" -> IF v.n < 0 THEN <<"-">> \o NatToStr(-v.n) ELSE NatToStr(v.n)
      [] v.k = "none" -> <<"N", "o", "n", "e">>

-----------------------------------------------------------------------------
(* The data classes.                                                       *)

ColumnSchema(name, type, nullable) ==
    [columnName |-> name, dataTypeName |-> type, nullable |-> nullable]

\* rows is a list, or None (rowsNone) when the response carried "rows": null.
QueryResult(schema, rows, affected) ==
    [schema |-> schema, rows |-> rows, rowsNone |-> FALSE, affectedRows |-> affected]

QueryResultNoRows(schema, affected) ==
    [schema |-> schema, rows |-> <<>>, rowsNone |-> TRUE, affectedRows |-> affected]

\* not result.rows or len(result.rows) == 0
RowsFalsy(r) == r.rowsNone \/ Len(r.rows) = 0

-----------------------------------------------------------------------------
(* dict, zip and json.dumps.                                               *)

\* A dict is its items in insertion order, keys distinct.
DictKeys(d) == {d[j][1] : j \in 1..Len(d)}

DictIndex(d, key) == CHOOSE j \in 1..Len(d) : d[j][1] = key

DictGet(d, key) == d[DictIndex(d, key)][2]

\* Mutant of DictSet: dict.setdefault, an existing key keeps its value.
DictSet_setdefault(d, key, value) ==
    IF key \in DictKeys(d) THEN d ELSE Append(d, <<key, value>>)

\* d[key] = value: an existing key keeps its place and takes the new value.
DictSet(d, key, value) ==
    IF key \in DictKeys(d)
    THEN [d EXCEPT ![DictIndex(d, key)] = <<key, value>>]
    ELSE Append(d, <<key, value>>)

\* Mutant of Zip: itertools.zip_longest, the shorter argument padded with None.
Zip_longest(a, b) ==
    [j \in 1..Max2(Len(a), Len(b)) |->
        <<IF j <= Len(a) THEN a[j] ELSE <<>>, IF j <= Len(b) THEN b[j] ELSE NoneV>>]

\* zip(a, b): stops at the shorter one.
Zip(a, b) == [j \in 1..Min(Len(a), Len(b)) |-> <<a[j], b[j]>>]

RECURSIVE DictFromUpTo(_, _)
DictFromUpTo(pairs, n) ==
    IF n = 0 THEN <<>>
    ELSE DictSet(DictFromUpTo(pairs, n - 1), pairs[n][1], pairs[n][2])

\* dict(pairs): inserts the pairs left to right.
DictFrom(pairs) == DictFromUpTo(pairs, Len(pairs))

\* The lexical tokens of JSON text.
Tok(t) == [t |-> t, s |-> <<>>, n |-> 0]

JsonValue(v) ==
    CASE v.k = "str" -> [t |-> "string", s |-> v.s, n |-> 0]
      [] v.k = "int" -> [t |-> "number", s |-> <<>>, n |-> v.n]
      [] v.k = "none" -> Tok("null")

JsonMember(item) == <<[t |-> "key", s |-> item[1], n |-> 0], Tok(":"), JsonValue(item[2])>>

JsonObject(d) ==
    <<Tok("{")>> \o Join(<<Tok(",")>>, [j \in 1..Len(d) |-> JsonMember(d[j])]) \o <<Tok("}")>>

\* json.dumps(data, indent=2) of a list of dicts, as the token sequence of the text.
JsonDumps(data) ==
    <<Tok("[")>> \o Join(<<Tok(",")>>, [j \in 1..Len(data) |-> JsonObject(data[j])])
                 \o <<Tok("]")>>

-----------------------------------------------------------------------------
(* The result formatter.                                                   *)

\* [col.columnName for col in result.schema]
headers(r) == [i \in 1..Len(r.schema) |-> r.schema[i].columnName]

\* dict(zip(headers, row))
CompactRecord(names, row) == DictFrom(Zip(names, row))

\* [dict(zip(headers, row)) for row in result.rows]
CompactRecords(r) == [j \in 1..Len(r.rows) |-> CompactRecord(headers(r), r.rows[j])]

\* str(row[i] if i < len(row) else '')
Cell(row, i) == IF i <= Len(row) THEN Str(row[i]) ELSE <<>>

\* Mutant of max_data_width: measures the first row only.
max_data_width_first_row(rows, i) == Len(Cell(rows[1], i))

\* max(len(str(row[i] if i < len(row) else '')) for row in result.rows)
max_data_width(rows, i) == MaxOf([j \in 1..Len(rows) |-> Len(Cell(rows[j], i))])

\* column_widths, one entry per header.
column_widths(r) ==
    [i \in 1..Len(r.schema) |-> Max2(Len(headers(r)[i]), max_data_width(r.rows, i))]

header_row(r) ==
    Join(<<" ", "|", " ">>,
         [i \in 1..Len(r.schema) |-> Ljust(headers(r)[i], column_widths(r)[i])])

separator(r) ==
    Join(<<"-", "+", "-">>, [i \in 1..Len(r.schema) |-> Repeat("-", column_widths(r)[i])])

\* Mutant of formatted_row: renders only the cells the row has.
formatted_row_present_cells(r, row) ==
    Join(<<" ", "|", " ">>,
         [i \in 1..Min(Len(r.schema), Len(row)) |-> Ljust(Cell(row, i), column_widths(r)[i])])

formatted_row(r, row) ==
    Join(<<" ", "|", " ">>,
         [i \in 1..Len(r.schema) |-> Ljust(Cell(row, i), column_widths(r)[i])])

data_rows(r) == [j \in 1..Len(r.rows) |-> formatted_row(r, r.rows[j])]

NoResultsFound ==
    <<"N", "o", " ", "r", "e", "s", "u", "l", "t", "s", " ", "f", "o", "u", "n", "d", ".">>

\* What a formatter call hands back: the returned text (lines is the list that
\* was joined into it), the returned JSON text (tokens), the returned list of
\* dicts (data), or the exception raised (kind).
Returned(kind, text, lines, tokens, data) ==
    [kind |-> kind, text |-> text, lines |-> lines, tokens |-> tokens, data |-> data]

\* '\n'.join([header_row, separator] + data_rows)
TableText(r) ==
    Returned("str", Join(<<"\n">>, <<header_row(r), separator(r)>> \o data_rows(r)),
             <<header_row(r), separator(r)>> \o data_rows(r), <<>>, <<>>)

\* Mutant of format_query_results: tests len(result.rows) == 0 alone, so that
\* a None rows raises TypeError.
format_query_results_len_only(r, compact) ==
    IF r.rowsNone THEN Returned("TypeError", <<>>, <<>>, <<>>, <<>>)
    ELSE IF Len(r.rows) = 0
    THEN Returned("str", NoResultsFound, <<NoResultsFound>>, <<>>, <<>>)
    ELSE IF compact THEN Returned("json", <<>>, <<>>, JsonDumps(CompactRecords(r)), <<>>)
    ELSE TableText(r)

\* format_query_results(result, compact)
format_query_results(r, compact) ==
    IF RowsFalsy(r) THEN Returned("str", NoResultsFound, <<NoResultsFound>>, <<>>, <<>>)
    ELSE IF compact THEN Returned("json", <<>>, <<>>, JsonDumps(CompactRecords(r)), <<>>)
    ELSE TableText(r)

\* Lines 254-258 of execute_query_compact: the projection of the QueryResult
\* that execute_query returned.  Iterating a None rows raises TypeError.
compact_projection(r) ==
    IF r.rowsNone THEN Returned("TypeError", <<>>, <<>>, <<>>, <<>>)
    ELSE Returned("list", <<>>, <<>>, <<>>, CompactRecords(r))

-----------------------------------------------------------------------------
(* Base64 and the Authorization header.                                    *)

\* str.encode(): the byte of each character (ASCII).
Ord(c) ==
    CASE c = "a" -> 97 [] c = "b" -> 98 [] c = "t" -> 116 [] c = "k" -> 107
      [] c = "n" -> 110 [] c = ":" -> 58

Encode(s) == [i \in 1..Len(s) |-> Ord(s[i])]

B64Alphabet ==
    <<"A", "B", "C", "D", "E", "F", "G", "H", "I", "J", "K", "L", "M",
      "N", "O", "P", "Q", "R", "S", "T", "U", "V", "W", "X", "Y", "Z",
      "a", "b", "c", "d", "e", "f", "g", "h", "i", "j", "k", "l", "m",
      "n", "o", "p", "q", "r", "s", "t", "u", "v", "w", "x", "y", "z",
      "0", "1", "2", "3", "4", "5", "6", "7", "8", "9", "+", "/">>

B64Char(sextet) == B64Alphabet[sextet + 1]

\* One group of up to three bytes, as four characters with "=" padding.
B64Group(g) ==
    LET b1 == g[1]
        b2 == IF Len(g) >= 2 THEN g[2] ELSE 0
        b3 == IF Len(g) >= 3 THEN g[3] ELSE 0
        n == b1 * 65536 + b2 * 256 + b3
    IN  <<B64Char(n \div 262144),
          B64Char((n \div 4096) % 64),
          IF Len(g) >= 2 THEN B64Char((n \div 64) % 64) ELSE "=",
          IF Len(g) >= 3 THEN B64Char(n % 64) ELSE "=">>

RECURSIVE B64EncodeFrom(_, _)
B64EncodeFrom(bytes, i) ==
    IF i > Len(bytes) THEN <<>>
    ELSE B64Group(SubSeq(bytes, i, Min(i + 2, Len(bytes)))) \o B64EncodeFrom(bytes, i + 3)

\* base64.b64encode(bytes).decode()
b64encode(bytes) == B64EncodeFrom(bytes, 1)

-----------------------------------------------------------------------------
(* Exceptions, requests and responses.                                     *)

NoBody == [results |-> [st |-> "missing", items |-> <<>>]]

\* A raised exception: its Python type, which raise statement (or which
\* builtin operation) raised it, and what its message carries.
Exc(type, tag) ==
    [type |-> type, tag |-> tag, hasStatus |-> FALSE, status |-> 0, text |-> "",
     json |-> NoBody]

NoExc == Exc("none", "none")

\* raise ValueError('CONNECT_AI_EMAIL and CONNECT_AI_TOKEN environment variables must be set')
CredentialsError == Exc("ValueError", "credentials must be set")

\* raise Exception(f'Connect AI API error ({response.status_code}): {response.text}')
ApiError(status, text) ==
    [Exc("Exception", "Connect AI API error") EXCEPT
        !.hasStatus = TRUE, !.status = status, !.text = text]

\* raise Exception(f'No results returned from query: {json.dumps(response)}')
NoResultsError(body) == [Exc("Exception", "No results returned from query") EXCEPT !.json = body]

BASE_URL == "https://cloud.cdata.com/api"

\* not email or not token: None and '' are both falsy.
Falsy(v) == v.k = "none" \/ (v.k = "str" /\ v.s = <<>>)

\* Mutant of get_auth_credentials: the pair the previous call read is reused.
get_auth_credentials_cached(env) ==
    IF ret.op # "none" /\ ~Falsy(ret.env.email) /\ ~Falsy(ret.env.token)
    THEN [exc |-> NoExc, email |-> ret.env.email.s, token |-> ret.env.token.s]
    ELSE IF Falsy(env.email) \/ Falsy(env.token)
    THEN [exc |-> CredentialsError, email |-> <<>>, token |-> <<>>]
    ELSE [exc |-> NoExc, email |-> env.email.s, token |-> env.token.s]

\* Mutant of get_auth_credentials: only the email is tested.
get_auth_credentials_email_only(env) ==
    IF Falsy(env.email)
    THEN [exc |-> CredentialsError, email |-> <<>>, token |-> <<>>]
    ELSE [exc |-> NoExc, email |-> env.email.s, token |-> env.token.s]

\* get_auth_credentials(), reading os.environ (env).
get_auth_credentials(env) ==
    IF Falsy(env.email) \/ Falsy(env.token)
    THEN [exc |-> CredentialsError, email |-> <<>>, token |-> <<>>]
    ELSE [exc |-> NoExc, email |-> env.email.s, token |-> env.token.s]

\* The headers of make_request.
Headers_for(email, token) ==
    [Authorization |-> <<"B", "a", "s", "i", "c", " ">>
                          \o b64encode(Encode(email \o <<":">> \o token)),
     ContentType |-> "application/json"]

Request(method, endpoint, hdrs, body) ==
    [method |-> method, base |-> BASE_URL, endpoint |-> endpoint, headers |-> hdrs,
     body |-> body]

\* requests.Response.ok: the status is below 400.
ResponseOk(resp) == resp.status < 400

\* A transport answer: a ConnectionError raised by requests, or a response
\* with its status, its text and, when the text is JSON, its decoding.
Response(kind, status, text, isJson, json) ==
    [kind |-> kind, status |-> status, text |-> text, isJson |-> isJson, json |-> json]

NotContacted == Response("none", 0, "", FALSE, NoBody)

NoRequestBody == [present |-> FALSE, query |-> [text |-> "", names |-> <<>>],
                  defaultSchema |-> NoneV,
                  schemaOnly |-> FALSE, parameters |-> <<>>]

\* What make_request did: the requests it sent, the transport's answer it
\* consumed, and the exception it raised or the decoded JSON it returned.
Made(sent, answer, exc, json) == [sent |-> sent, answer |-> answer, exc |-> exc, json |-> json]

\* Mutant of make_request: a failed attempt is sent a second time.
make_request_retry(env, endpoint, method, body, resp) ==
    LET cred == get_auth_credentials(env)
        req == Request(method, endpoint, Headers_for(cred.email, cred.token), body)
    IN  IF cred.exc # NoExc THEN Made(<<>>, NotContacted, cred.exc, NoBody)
        ELSE IF resp.kind = "ConnectionError"
        THEN Made(<<req, req>>, resp, Exc("ConnectionError", "requests"), NoBody)
        ELSE IF ~ResponseOk(resp)
        THEN Made(<<req, req>>, resp, ApiError(resp.status, resp.text), NoBody)
        ELSE IF ~resp.isJson
        THEN Made(<<req>>, resp, Exc("JSONDecodeError", "response.json()"), NoBody)
        ELSE Made(<<req>>, resp, NoExc, resp.json)

\* make_request(endpoint, method, body) in the environment env, the transport
\* answering resp if it is contacted.
make_request(env, endpoint, method, body, resp) ==
    LET cred == get_auth_credentials(env)
        req == Request(method, endpoint, Headers_for(cred.email, cred.token), body)
    IN  IF cred.exc # NoExc THEN Made(<<>>, NotContacted, cred.exc, NoBody)
        ELSE IF method \notin {"GET", "POST"}
        THEN Made(<<>>, NotContacted, Exc("ValueError", "Unsupported HTTP method"), NoBody)
        ELSE IF resp.kind = "ConnectionError"
        THEN Made(<<req>>, resp, Exc("ConnectionError", "requests"), NoBody)
        ELSE IF ~ResponseOk(resp)
        THEN Made(<<req>>, resp, ApiError(resp.status, resp.text), NoBody)
        ELSE IF ~resp.isJson
        THEN Made(<<req>>, resp, Exc("JSONDecodeError", "response.json()"), NoBody)
        ELSE Made(<<req>>, resp, NoExc, resp.json)

-----------------------------------------------------------------------------
(* The gateway operations.                                                 *)

Catalog(name) == [catalogName |-> name]

Schema(catalog, schema) == [TABLE_CATALOG |-> catalog, TABLE_SCHEMA |-> schema]

Table(catalog, schema, name, type, remarks) ==
    [TABLE_CATALOG |-> catalog, TABLE_SCHEMA |-> schema, TABLE_NAME |-> name,
     TABLE_TYPE |-> type, REMARKS |-> remarks]

NoQueryResult == QueryResultNoRows(<<>>, NoneV)

\* What a call of a public operation did and handed back: the make_request
\* behind it, the exception that reached the caller (NoExc when it returned),
\* and the returned list, QueryResult or list of dicts.
Outcome(made, exc, list, hasResult, qr, records) ==
    [made |-> made, exc |-> exc, list |-> list, hasResult |-> hasResult, qr |-> qr,
     records |-> records]

\* The record of a call: the operation, its arguments, os.environ as the call
\* found it, whether the call before it found other credentials (rotated),
\* and the outcome.
Called(op, args, env, o) ==
    [op |-> op, args |-> args, env |-> env, rotated |-> FALSE, exc |-> o.exc,
     list |-> o.list, hasResult |-> o.hasResult, qr |-> o.qr, records |-> o.records]

Raised(made, exc) == Outcome(made, exc, <<>>, FALSE, NoQueryResult, <<>>)

\* response['results'][0]['rows']: the exception the subscripts raise, or the rows.
FirstRows(body) ==
    IF body.results.st = "missing" THEN [exc |-> Exc("KeyError", "'results'"), rows |-> <<>>]
    ELSE IF body.results.st = "null"
    THEN [exc |-> Exc("TypeError", "'NoneType' object is not subscriptable"), rows |-> <<>>]
    ELSE IF Len(body.results.items) = 0
    THEN [exc |-> Exc("IndexError", "list index out of range"), rows |-> <<>>]
    ELSE LET first == body.results.items[1]
         IN  IF first.rows.st = "missing"
             THEN [exc |-> Exc("KeyError", "'rows'"), rows |-> <<>>]
             ELSE IF first.rows.st = "null"
             THEN [exc |-> Exc("TypeError", "'NoneType' object is not iterable"),
                   rows |-> <<>>]
             ELSE [exc |-> NoExc, rows |-> first.rows.items]

\* The rows a list comprehension iterates, each row subscripted up to
\* row[needed - 1]: a shorter row raises IndexError.
CheckedRows(made, needed) ==
    LET got == FirstRows(made.json)
    IN  IF made.exc # NoExc THEN [exc |-> made.exc, rows |-> <<>>]
        ELSE IF got.exc # NoExc THEN got
        ELSE IF \E j \in 1..Len(got.rows) : Len(got.rows[j]) < needed
        THEN [exc |-> Exc("IndexError", "list index out of range"), rows |-> <<>>]
        ELSE got

Listed(made, list) == Outcome(made, NoExc, list, FALSE, NoQueryResult, <<>>)

\* The query string of get_schemas and get_tables: the truthy filters, in order.
Params(pairs) == SelectSeq(pairs, LAMBDA pr : ~Falsy(pr[2]))

Endpoint(path, params) == [path |-> path, params |-> params]

get_catalogs(env, resp) ==
    LET made == make_request(env, Endpoint("/catalogs", <<>>), "GET", NoRequestBody, resp)
        got == CheckedRows(made, 1)
    IN  IF got.exc # NoExc THEN Raised(made, got.exc)
        ELSE Listed(made, [j \in 1..Len(got.rows) |-> Catalog(got.rows[j][1])])

get_schemas(env, catalog_name, schema_name, resp) ==
    LET params == Params(<<<<"catalogName", catalog_name>>, <<"schemaName", schema_name>>>>)
        made == make_request(env, Endpoint("/schemas", params), "GET", NoRequestBody, resp)
        got == CheckedRows(made, 2)
    IN  IF got.exc # NoExc THEN Raised(made, got.exc)
        ELSE Listed(made, [j \in 1..Len(got.rows) |->
                              Schema(got.rows[j][1], got.rows[j][2])])

get_tables(env, catalog_name, schema_name, table_name, table_type, resp) ==
    LET params == Params(<<<<"catalogName", catalog_name>>, <<"schemaName", schema_name>>,
                           <<"tableName", table_name>>, <<"tableType", table_type>>>>)
        made == make_request(env, Endpoint("/tables", params), "GET", NoRequestBody, resp)
        got == CheckedRows(made, 4)
    IN  IF got.exc # NoExc THEN Raised(made, got.exc)
        ELSE Listed(made, [j \in 1..Len(got.rows) |->
                              LET row == got.rows[j]
                              IN  Table(row[1], row[2], row[3], row[4],
                                        IF Len(row) > 4 THEN row[5] ELSE NoneV)])

\* not response.get('results') or len(response['results']) == 0
NoResultSets(body) ==
    \/ body.results.st \in {"missing", "null"}
    \/ Len(body.results.items) = 0

\* The QueryResult execute_query builds from one result set.
ToQueryResult(rs) ==
    LET cols == IF rs.schema.st = "list" THEN rs.schema.items ELSE <<>>
        schema == [i \in 1..Len(cols) |->
                      ColumnSchema(cols[i].columnName, cols[i].dataTypeName, cols[i].nullable)]
        affected == IF rs.affectedRows.st = "missing" THEN NoneV ELSE rs.affectedRows.v
    IN  IF rs.rows.st = "null" THEN QueryResultNoRows(schema, affected)
        ELSE QueryResult(schema, IF rs.rows.st = "missing" THEN <<>> ELSE rs.rows.items,
                         affected)

\* Mutant of FirstResult: the last result set is taken.
FirstResult_last(body) == body.results.items[Len(body.results.items)]

\* response['results'][0]
FirstResult(body) == body.results.items[1]

execute_query(env, query, default_schema, schema_only, parameters, resp) ==
    LET body == [present |-> TRUE, query |-> query, defaultSchema |-> default_schema,
                 schemaOnly |-> schema_only, parameters |-> parameters]
        made == make_request(env, Endpoint("/query", <<>>), "POST", body, resp)
    IN  IF made.exc # NoExc THEN Raised(made, made.exc)
        ELSE IF NoResultSets(made.json) THEN Raised(made, NoResultsError(made.json))
        ELSE Outcome(made, NoExc, <<>>, TRUE, ToQueryResult(FirstResult(made.json)), <<>>)

\* f'SELECT * FROM {catalog_name}.{schema_name}.{table_name}'
SelectAllFrom(catalog_name, schema_name, table_name) ==
    [text |-> "SELECT * FROM {}.{}.{}", names |-> <<catalog_name, schema_name, table_name>>]

get_table_columns(env, catalog_name, schema_name, table_name, resp) ==
    execute_query(env, SelectAllFrom(catalog_name, schema_name, table_name), NoneV, TRUE,
                  <<>>, resp)

execute_query_compact(env, query, resp) ==
    LET got == execute_query(env, query, NoneV, FALSE, <<>>, resp)
        projected == compact_projection(got.qr)
    IN  IF got.exc # NoExc THEN got
        ELSE IF projected.kind = "TypeError"
        THEN Raised(got.made, Exc("TypeError", "'NoneType' object is not iterable"))
        ELSE Outcome(got.made, NoExc, <<>>, FALSE, NoQueryResult, projected.data)

-----------------------------------------------------------------------------
(* FormatSpec: the formatter over a bounded family of QueryResults.        *)

Names == {<<"A">>, <<"I", "d">>}

Values == {StrV(<<"x">>), NoneV}

\* Rows with integers and an empty string, beside the rows over Values.
NumberRows == {<<IntV(12)>>, <<StrV(<<>>), IntV(-3)>>}

\* A schema one column wider than the rows over Values, with a repeated name.
WideHeaders == {<<<<"A">>, <<"A">>, <<"I", "d">>>>}

Schemas == {[i \in DOMAIN names |-> ColumnSchema(names[i], "VARCHAR", "none")] :
                names \in SeqUpTo(Names, MaxCols) \cup WideHeaders}

\* Rows of every length up to MaxCols, whatever the schema's length: shorter
\* than the schema, as long, and longer.
RowSet == SeqUpTo(Values, MaxCols) \cup NumberRows

QueryResults ==
    {QueryResult(s, rows, NoneV) : s \in Schemas, rows \in SeqUpTo(RowSet, MaxRows)}
    \cup {QueryResultNoRows(s, NoneV) : s \in Schemas}

NoOut == [op |-> "none", compact |-> FALSE, val |-> Returned("none", <<>>, <<>>, <<>>, <<>>)]

\* No call of a network operation has been made yet.
NoCall ==
    Called("none", <<>>, [email |-> NoneV, token |-> NoneV],
           Raised(Made(<<>>, NotContacted, NoExc, NoBody), NoExc))

FormatInit ==
    /\ result \in QueryResults
    /\ out = NoOut
    /\ environ = [email |-> NoneV, token |-> NoneV]
    /\ wire = <<>>
    /\ reply = NotContacted
    /\ ret = NoCall

\* format_query_results(result) and format_query_results(result, compact=True)
Format ==
    /\ \E compact \in BOOLEAN :
          out' = [op |-> "format_query_results", compact |-> compact,
                  val |-> format_query_results(result, compact)]
    /\ UNCHANGED <<result, gwVars>>

\* The projection of execute_query_compact applied to the result.
ProjectCompact ==
    /\ out' = [op |-> "execute_query_compact", compact |-> TRUE,
               val |-> compact_projection(result)]
    /\ UNCHANGED <<result, gwVars>>

FormatNext == Format \/ ProjectCompact

FormatSpec == FormatInit /\ [][FormatNext]_vars

-----------------------------------------------------------------------------
(* Spec: calls of the network operations, the environment changing between *)
(* them and the remote service answering as it pleases.                    *)

\* Absent, empty and set; the set pairs encode to 3, 4 and 5 bytes.
Emails == {NoneV, StrV(<<>>), StrV(<<"a">>)}

Tokens == {NoneV, StrV(<<"t">>), StrV(<<"t", "k">>), StrV(<<"t", "k", "n">>)}

Environs == [email : Emails, token : Tokens]

Missing == [st |-> "missing", items |-> <<>>]

Null == [st |-> "null", items |-> <<>>]

List(items) == [st |-> "list", items |-> items]

Text(c) == StrV(<<c>>)

TwoColumns ==
    List(<<ColumnSchema(<<"A">>, "VARCHAR", "none"), ColumnSchema(<<"I", "d">>, "INT", "true")>>)

\* A full row and a short one.
TwoRows == List(<<<<Text("x"), NoneV>>, <<IntV(12)>>>>)

SchemaOpts == {Missing, Null, TwoColumns}

RowsOpts ==
    {Missing, Null, List(<<>>), TwoRows,
     List(<<<<Text("c"), Text("s"), Text("t"), Text("y")>>,
            <<Text("c"), Text("s"), Text("t"), Text("y"), Text("r")>>>>)}

ResultSet(schema, rows) ==
    [schema |-> schema, rows |-> rows, affectedRows |-> [st |-> "missing", v |-> NoneV]]

\* Every shape of schema, and every shape of rows.
ResultSets ==
    {ResultSet(sc, TwoRows) : sc \in SchemaOpts}
    \cup {ResultSet(TwoColumns, rw) : rw \in RowsOpts}

\* A second result set, unlike every first one.
OtherResultSet ==
    [schema |-> List(<<ColumnSchema(<<"I", "d">>, "INT", "none")>>),
     rows |-> List(<<<<IntV(-3)>>>>),
     affectedRows |-> [st |-> "present", v |-> IntV(1)]]

Bodies ==
    {[results |-> Missing], [results |-> Null], [results |-> List(<<>>)]}
    \cup {[results |-> List(<<rs>>)] : rs \in ResultSets}
    \cup {[results |-> List(<<rs, OtherResultSet>>)] :
             rs \in {ResultSet(TwoColumns, TwoRows), ResultSet(Null, TwoRows)}}

Responses ==
    {Response("ConnectionError", 0, "", FALSE, NoBody),
     Response("http", 401, "Unauthorized", FALSE, NoBody),
     Response("http", 500, "Internal Server Error", FALSE, NoBody),
     Response("http", 200, "<html>", FALSE, NoBody)}
    \cup {Response("http", 200, "json", TRUE, b) : b \in Bodies}

CatalogArgs == {NoneV, Text("c")}

SchemaArgs == {StrV(<<>>), Text("s")}

\* catalog_name, schema_name, table_name, table_type
TableFilters ==
    {<<NoneV, NoneV, NoneV, NoneV>>,
     <<Text("c"), Text("s"), NoneV, StrV(<<"T", "A", "B", "L", "E">>)>>,
     <<Text("c"), StrV(<<>>), Text("t"), NoneV>>}

Queries == {[text |-> "SELECT Status, COUNT(*) FROM Tickets GROUP BY Status", names |-> <<>>]}

Init ==
    /\ environ \in Environs
    /\ wire = <<>>
    /\ reply = NotContacted
    /\ ret = NoCall
    /\ result = NoQueryResult
    /\ out = NoOut

\* The caller's bookkeeping of one call: the requests it put on the wire, the
\* answer it consumed and its outcome.
Record(op, args, o) ==
    /\ wire' = o.made.sent
    /\ reply' = o.made.answer
    /\ ret' = [Called(op, args, environ, o) EXCEPT
                   !.rotated = /\ ret.op # "none"
                               /\ ret.exc.tag # CredentialsError.tag
                               /\ ret.env # environ]
    /\ UNCHANGED <<environ, fmtVars>>

\* os.environ is changed from outside, between calls.
SetEnviron ==
    /\ \E env \in Environs : env # environ /\ environ' = env
    /\ UNCHANGED <<wire, reply, ret, fmtVars>>

CallGetCatalogs ==
    \E resp \in Responses : Record("get_catalogs", <<>>, get_catalogs(environ, resp))

CallGetSchemas ==
    \E resp \in Responses, c \in CatalogArgs, sc \in SchemaArgs :
        Record("get_schemas", <<c, sc>>, get_schemas(environ, c, sc, resp))

CallGetTables ==
    \E resp \in Responses, f \in TableFilters :
        Record("get_tables", f, get_tables(environ, f[1], f[2], f[3], f[4], resp))

CallExecuteQuery ==
    \E resp \in Responses, q \in Queries, schema_only \in BOOLEAN :
        Record("execute_query", <<schema_only>>,
               execute_query(environ, q, NoneV, schema_only, <<>>, resp))

CallGetTableColumns ==
    \E resp \in Responses :
        Record("get_table_columns", <<Text("c"), Text("s"), Text("t")>>,
               get_table_columns(environ, Text("c"), Text("s"), Text("t"), resp))

CallExecuteQueryCompact ==
    \E resp \in Responses, q \in Queries :
        Record("execute_query_compact", <<>>, execute_query_compact(environ, q, resp))

Next ==
    \/ SetEnviron
    \/ CallGetCatalogs
    \/ CallGetSchemas
    \/ CallGetTables
    \/ CallExecuteQuery
    \/ CallGetTableColumns
    \/ CallExecuteQueryCompact

Spec == Init /\ [][Next]_vars

-----------------------------------------------------------------------------
(* Properties of the formatter (FormatSpec).                               *)

TableCall == out.op = "format_query_results" /\ ~out.compact

\* The greatest element of a non-empty set of integers.
SetMax(S) == CHOOSE m \in S : \A x \in S : x <= m

\* The width column i must have: the header's length, or the longest textual
\* form of a row's value at i, a row without a value at i counting 0.
ExpectedWidth(r, i) ==
    SetMax({Len(r.schema[i].columnName)}
           \cup {IF i <= Len(r.rows[j]) THEN Len(Str(r.rows[j][i])) ELSE 0 :
                    j \in 1..Len(r.rows)})

RECURSIVE SumUpTo(_, _)
SumUpTo(f, n) == IF n = 0 THEN 0 ELSE f[n] + SumUpTo(f, n - 1)

\* The sum of the column widths plus 3 for each separator between columns.
ExpectedLineLength(r) ==
    IF Len(r.schema) = 0 THEN 0
    ELSE SumUpTo([i \in 1..Len(r.schema) |-> ExpectedWidth(r, i)], Len(r.schema))
         + 3 * (Len(r.schema) - 1)

\* C1: with empty or absent rows format_query_results returns exactly
\* "No results found.", whatever the schema and the mode: one line, no header,
\* no separator.
C1_NoResultsFound ==
    (out.op = "format_query_results" /\ (result.rowsNone \/ result.rows = <<>>))
        => /\ out.val.kind = "str"
           /\ out.val.text = <<"N", "o", " ", "r", "e", "s", "u", "l", "t", "s", " ",
                               "f", "o", "u", "n", "d", ".">>
           /\ \A p \in 1..Len(out.val.text) : out.val.text[p] # "\n"

\* C1 witness: the formatter ran on absent rows under a non-empty schema.
C1_Witness ==
    /\ TableCall
    /\ result.rowsNone
    /\ Len(result.schema) > 0

\* C2: with at least one row, the header line and every data-row line of the
\* table have the same length: the column widths plus 3 per separator.
C2_LinesAligned ==
    (TableCall /\ ~RowsFalsy(result))
        => /\ out.val.kind = "str"
           /\ Len(out.val.lines) = Len(result.rows) + 2
           /\ out.val.text = Join(<<"\n">>, out.val.lines)
           /\ \A j \in 1..Len(out.val.lines) :
                 j # 2 => Len(out.val.lines[j]) = ExpectedLineLength(result)

\* C2 witness: a table of two columns where one row is shorter than the schema
\* and the cells of a column differ in length.
C2_Witness ==
    /\ TableCall
    /\ Len(result.schema) = 2
    /\ Len(result.rows) = 2
    /\ Len(result.rows[1]) = 1
    /\ Len(result.rows[2]) = 2
    /\ Len(Str(result.rows[1][1])) # Len(Str(result.rows[2][1]))

\* The positions of "+" in the separator line, and the k-th of them.
PlusPos(sep) == {p \in 1..Len(sep) : sep[p] = "+"}

Kth(S, k) == CHOOSE p \in S : Cardinality({q \in S : q <= p}) = k

\* The width of column i as the separator line shows it: the run of "-"
\* between the "-+-" joints, of n columns.
SeparatorWidth(sep, n, i) ==
    LET first == IF i = 1 THEN 1 ELSE Kth(PlusPos(sep), i - 1) + 2
        last == IF i = n THEN Len(sep) ELSE Kth(PlusPos(sep), i) - 2
    IN  last - first + 1

\* C9: the width used for column i is the maximum of the header's length and
\* the lengths of the textual forms of row[i], a row without index i counting
\* 0; the computation never fails on short rows.
C9_ColumnWidth ==
    (TableCall /\ ~RowsFalsy(result))
        => /\ out.val.kind = "str"
           /\ Len(out.val.lines) >= 2
           /\ LET sep == out.val.lines[2]
                  n == Len(result.schema)
              IN  /\ Cardinality(PlusPos(sep)) = IF n = 0 THEN 0 ELSE n - 1
                  /\ \A p \in 1..Len(sep) : sep[p] \in {"-", "+"}
                  /\ \A i \in 1..n : SeparatorWidth(sep, n, i) = ExpectedWidth(result, i)

\* C9 witness: a column whose width comes from a later row, the first row
\* having no value at that index.
C9_Witness ==
    /\ TableCall
    /\ ~RowsFalsy(result)
    /\ \E i \in 1..Len(result.schema) :
          /\ i > Len(result.rows[1])
          /\ ExpectedWidth(result, i) > Len(result.schema[i].columnName)

\* Reading JSON text back: the value a token stands for, and the objects of a
\* top-level array, each as its members in textual order.
TokenValue(tok) ==
    CASE tok.t = "string" -> StrV(tok.s)
      [] tok.t = "number" -> IntV(tok.n)
      [] tok.t = "null" -> NoneV

TokPos(tokens, t) == {p \in 1..Len(tokens) : tokens[p].t = t}

ObjectMembers(tokens, k) ==
    LET open == Kth(TokPos(tokens, "{"), k)
        close == Kth(TokPos(tokens, "}"), k)
        keys == {p \in TokPos(tokens, "key") : open < p /\ p < close}
    IN  [m \in 1..Cardinality(keys) |->
            <<tokens[Kth(keys, m)].s, TokenValue(tokens[Kth(keys, m) + 2])>>]

JsonObjects(tokens) ==
    [k \in 1..Cardinality(TokPos(tokens, "{")) |-> ObjectMembers(tokens, k)]

\* A compact projection was produced: by execute_query_compact, or by the
\* compact branch of format_query_results.
CompactCase ==
    \/ out.op = "execute_query_compact" /\ out.val.kind = "list"
    \/ out.op = "format_query_results" /\ out.compact /\ out.val.kind = "json"

\* The records produced, one sequence of <<key, value>> members per record.
CompactOutput ==
    IF out.op = "execute_query_compact" THEN out.val.data ELSE JsonObjects(out.val.tokens)

MemberKeys(rec) == {rec[m][1] : m \in 1..Len(rec)}

\* The values a record holds under a key.
MemberValues(rec, key) == {rec[m][2] : m \in {q \in 1..Len(rec) : rec[q][1] = key}}

KeysOnce(rec) == \A m, q \in 1..Len(rec) : rec[m][1] = rec[q][1] => m = q

DistinctNames(schema) ==
    \A i, k \in 1..Len(schema) : schema[i].columnName = schema[k].columnName => i = k

\* C3: one record per row, in row order; for a row as long as the schema the
\* record's keys are the column names, each once, and the key of column i
\* holds the row's value at index i.
C3_CompactRecords ==
    CompactCase
        => /\ Len(CompactOutput) = Len(result.rows)
           /\ \A j \in 1..Len(result.rows) :
                 Len(result.rows[j]) = Len(result.schema)
                     => /\ KeysOnce(CompactOutput[j])
                        /\ MemberKeys(CompactOutput[j])
                               = {result.schema[i].columnName : i \in 1..Len(result.schema)}
                        /\ \A i \in 1..Len(result.schema) :
                              MemberValues(CompactOutput[j], result.schema[i].columnName)
                                  = {result.rows[j][i]}

\* The last of the first n columns that bears the name.
LastIndex(schema, name, n) == SetMax({k \in 1..n : schema[k].columnName = name})

\* C3 amended: one record per row, in row order; for a row as long as the
\* schema the record's keys are the column names, each once, and the key of
\* column i holds the row's value at the last index whose column has that
\* name (index i itself when no later column repeats the name).
C3_CompactRecordsLastWins ==
    CompactCase
        => /\ Len(CompactOutput) = Len(result.rows)
           /\ \A j \in 1..Len(result.rows) :
                 Len(result.rows[j]) = Len(result.schema)
                     => /\ KeysOnce(CompactOutput[j])
                        /\ MemberKeys(CompactOutput[j])
                               = {result.schema[i].columnName : i \in 1..Len(result.schema)}
                        /\ \A i \in 1..Len(result.schema) :
                              MemberValues(CompactOutput[j], result.schema[i].columnName)
                                  = {result.rows[j][LastIndex(result.schema,
                                                              result.schema[i].columnName,
                                                              Len(result.schema))]}

\* C3 witness: execute_query_compact projected two different full-length rows
\* of a two-column schema.
C3_Witness ==
    /\ out.op = "execute_query_compact"
    /\ out.val.kind = "list"
    /\ Len(result.schema) = 2
    /\ Len(result.rows) = 2
    /\ Len(result.rows[1]) = 2
    /\ Len(result.rows[2]) = 2
    /\ result.rows[1] # result.rows[2]

\* C10: for a row shorter than the schema the record holds exactly the keys of
\* the first len(row) columns, each with the row's value, and no later key.
C10_ShortRowRecord ==
    CompactCase
        => \A j \in 1..Len(result.rows) :
              LET row == result.rows[j]
                  rec == CompactOutput[j]
              IN  Len(row) < Len(result.schema)
                      => /\ Len(rec) = Len(row)
                         /\ MemberKeys(rec) = {result.schema[i].columnName : i \in 1..Len(row)}
                         /\ \A i \in 1..Len(row) :
                               MemberValues(rec, result.schema[i].columnName) = {row[i]}

\* C10 amended: for a row shorter than the schema the record holds exactly the
\* names of the first len(row) columns, each once, each with the row's value
\* at the last of those columns that bears the name; a name borne by later
\* columns only is absent (not mapped to null).
C10_ShortRowRecordLastWins ==
    CompactCase
        => \A j \in 1..Len(result.rows) :
              LET row == result.rows[j]
                  rec == CompactOutput[j]
              IN  Len(row) < Len(result.schema)
                      => /\ KeysOnce(rec)
                         /\ MemberKeys(rec) = {result.schema[i].columnName : i \in 1..Len(row)}
                         /\ \A i \in 1..Len(row) :
                               MemberValues(rec, result.schema[i].columnName)
                                   = {row[LastIndex(result.schema,
                                                    result.schema[i].columnName, Len(row))]}

\* C10 witness: the compact branch of format_query_results rendered a row of
\* one value under a schema of two distinct columns.
C10_Witness ==
    /\ out.op = "format_query_results"
    /\ out.compact
    /\ out.val.kind = "json"
    /\ Len(result.schema) = 2
    /\ DistinctNames(result.schema)
    /\ \E j \in 1..Len(result.rows) : Len(result.rows[j]) = 1

-----------------------------------------------------------------------------
(* Properties of the gateway (Spec).                                       *)

GatewayOps == {"get_catalogs", "get_schemas", "get_tables", "execute_query"}

Absent(v) == v.k = "none"

\* C4: a call made while either credential is absent fails with the
\* configuration error, and no HTTP request is sent.
C4_MissingCredentials ==
    (ret.op # "none" /\ (Absent(ret.env.email) \/ Absent(ret.env.token)))
        => /\ ret.exc.type = "ValueError"
           /\ ret.exc.tag = "credentials must be set"
           /\ wire = <<>>
           /\ reply.kind = "none"
           /\ ~ret.hasResult
           /\ ret.list = <<>>
           /\ ret.records = <<>>

\* C4 witness: a helper built on execute_query was called with the email set
\* and the token absent.
C4_Witness ==
    /\ ret.op = "execute_query_compact"
    /\ ~Falsy(ret.env.email)
    /\ Absent(ret.env.token)

\* The response lacks results[0]: no results member, a null one or an empty list.
LacksFirstResult(body) == body.results.st # "list" \/ body.results.items = <<>>

IsRequestError(exc, resp) ==
    /\ exc.type = "Exception"
    /\ exc.tag = "Connect AI API error"
    /\ exc.hasStatus
    /\ exc.status = resp.status
    /\ exc.text = resp.text

\* C5: a non-success status, or a successful response without results[0],
\* makes a gateway operation fail with the request error that carries the
\* status code and the body; no other error reaches the caller.
C5_RequestError ==
    (/\ ret.op \in GatewayOps
     /\ reply.kind = "http"
     /\ \/ reply.status >= 400
        \/ reply.isJson /\ LacksFirstResult(reply.json))
        => /\ IsRequestError(ret.exc, reply)
           /\ ~ret.hasResult

\* The part of C5 the code keeps: a status of 400 or more raises the request
\* error with that status and the response text, in every operation.
NonSuccessStatusRaises ==
    (ret.op # "none" /\ reply.kind = "http" /\ reply.status >= 400)
        => IsRequestError(ret.exc, reply) /\ ~ret.hasResult

\* C6: execute_query fails with the empty-result error when the decoded
\* response has no result set (results missing, null or empty), and otherwise
\* returns the QueryResult of the first result set alone.
C6_EmptyResult ==
    (ret.op = "execute_query" /\ reply.kind = "http" /\ reply.status = 200 /\ reply.isJson)
        => IF LacksFirstResult(reply.json)
           THEN /\ ret.exc.type = "Exception"
                /\ ret.exc.tag = "No results returned from query"
                /\ ret.exc.json = reply.json
                /\ ~ret.hasResult
           ELSE LET first == reply.json.results.items[1]
                IN  /\ ret.exc.type = "none"
                    /\ ret.hasResult
                    /\ Len(ret.qr.schema)
                           = IF first.schema.st = "list" THEN Len(first.schema.items) ELSE 0
                    /\ \A i \in 1..Len(ret.qr.schema) :
                          ret.qr.schema[i] = first.schema.items[i]
                    /\ ret.qr.rowsNone = (first.rows.st = "null")
                    /\ ret.qr.rows = first.rows.items
                    /\ ret.qr.affectedRows = first.affectedRows.v

\* C6 witness: execute_query returned from a response of two result sets.
C6_Witness ==
    /\ ret.op = "execute_query"
    /\ ret.hasResult
    /\ Len(reply.json.results.items) = 2
    /\ Len(ret.qr.rows) > 0

\* C7: a call sends at most one HTTP request, and when that request fails
\* (transport error or non-success status) the error reaches the caller with
\* no further request: nothing is retried.
C7_NoRetry ==
    /\ Len(wire) <= 1
    /\ (ret.op # "none" /\ reply.kind = "ConnectionError")
           => Len(wire) = 1 /\ ret.exc.type = "ConnectionError" /\ ~ret.hasResult
    /\ (ret.op # "none" /\ reply.kind = "http" /\ reply.status >= 400)
           => Len(wire) = 1 /\ IsRequestError(ret.exc, reply) /\ ~ret.hasResult
    /\ (reply.kind = "none") <=> (wire = <<>>)

\* C7 witness: get_table_columns got a 500 to the request it sent.
C7_Witness ==
    /\ ret.op = "get_table_columns"
    /\ reply.kind = "http"
    /\ reply.status = 500
    /\ Len(wire) = 1

\* Base64 read back: the bytes a text of four-character groups stands for.
B64Index(c) == IF c = "=" THEN 0 ELSE (CHOOSE k \in 1..64 : B64Alphabet[k] = c) - 1

B64GroupBytes(q) ==
    LET n == B64Index(q[1]) * 262144 + B64Index(q[2]) * 4096 + B64Index(q[3]) * 64
                 + B64Index(q[4])
        all == <<n \div 65536, (n \div 256) % 256, n % 256>>
    IN  IF q[3] = "=" THEN SubSeq(all, 1, 1)
        ELSE IF q[4] = "=" THEN SubSeq(all, 1, 2)
        ELSE all

RECURSIVE B64Decode(_)
B64Decode(text) ==
    IF Len(text) < 4 THEN <<>>
    ELSE B64GroupBytes(SubSeq(text, 1, 4)) \o B64Decode(SubSeq(text, 5, Len(text)))

\* C8: the Authorization header of each request is "Basic " followed by the
\* base64 of identity ":" secret, of the credentials os.environ held when the
\* call was made, whatever earlier calls read.
C8_AuthorizationHeader ==
    \A r \in 1..Len(wire) :
        LET auth == wire[r].headers.Authorization
        IN  /\ Len(auth) > 6
            /\ SubSeq(auth, 1, 6) = <<"B", "a", "s", "i", "c", " ">>
            /\ (Len(auth) - 6) % 4 = 0
            /\ B64Decode(SubSeq(auth, 7, Len(auth)))
                   = Encode(ret.env.email.s \o <<":">> \o ret.env.token.s)
            /\ wire[r].headers.ContentType = "application/json"

\* C8 witness: a request was sent by a call that found other credentials than
\* the call before it.
C8_Witness ==
    /\ ret.rotated
    /\ Len(wire) = 1
=============================================================================
